---- MODULE Spec2Model ----
(***************************************************************************)
(* Model of api/index.py: the session authenticator (create_session,       *)
(* get_current_user, logout, complete_onboarding) and the owner-scoped bot *)
(* routes, over the three tables users, sessions and bots.                 *)
(*                                                                         *)
(* Every route is an operator from a store S (the three tables, the uuid   *)
(* source and the clock) and the request's inputs to the set of outcomes   *)
(* the route can have: the response and the store it leaves.  An action of *)
(* the specification is one whole request: it takes one outcome of the     *)
(* route on the current store; requests are served one after the other.   *)
(* SpecAuth runs the authenticator, SpecBots the bot routes.               *)
(*                                                                         *)
(* SpecSide runs logins, logouts and the writes on a bot side by side, one *)
(* statement at a time, each request on a connection of its own: the       *)
(* database is PostgreSQL at READ COMMITTED, where the writes of a         *)
(* transaction are seen by others at its commit, an updated or deleted row *)
(* is held until then, and closing a connection rolls back.                *)
(*                                                                         *)
(* Conventions.  An optional value (Python None or a value) is a sequence  *)
(* of length 0 or 1.  A JSON mapping is a function from a set of keys.     *)
(* A uuid4 is a fresh number (collisions are excluded).  A session token   *)
(* string is a number: 0 is the empty string, n >= 1 is "sess_<uuid n>".   *)
(* The clock is counted in days; NOW() of the database and datetime.now()  *)
(* of the application read the same clock.  Request bodies are those that  *)
(* pass the pydantic validation of the route.                              *)
(***************************************************************************)
EXTENDS Integers, Sequences, FiniteSets, TLC

\* ------------------------------------------------------------------ bounds
\* Sessions ever issued, bots ever created, and the last clock reading.
MaxTokens == 2
MaxBots == 1
MaxTime == 8
\* Requests served statement by statement, side by side.
MaxRequests == 2

\* timedelta(days=7)
SessionTTL == 7

\* ------------------------------------------------------------- value sets
None == <<>>
Some(v) == <<v>>

\* Python truthiness of an Optional[str]: neither None nor "".
TruthyStr(o) == o # None /\ o[1] # ""
\* Python truthiness of an optional token (0 is the empty string).
TruthyTok(o) == o # None /\ o[1] # 0
\* Python truthiness of an Optional[dict]: neither None nor {}.
TruthyDict(o) == o # None /\ DOMAIN o[1] # {}

EmptyMap == [k \in {} |-> ""]
\* A bug the merge could have: the right operand replaces the mapping.
JsonbReplace(a, b) == b

\* jsonb || jsonb: the right operand's keys win, the other keys are kept.
JsonbConcat(a, b) ==
    [k \in DOMAIN a \cup DOMAIN b |-> IF k \in DOMAIN b THEN b[k] ELSE a[k]]

TestSessionId == "test_session_id"
TestEmail == "test@tensorx.com"
TestAuthData ==
    [email |-> TestEmail, name |-> "Test User", picture |-> Some("ui-avatars")]

\* A token no session ever carries (the issue counter stops at MaxTokens).
ForgedToken == MaxTokens + 1
TokenStrings == 0 .. ForgedToken

\* What a request carries: the session_token cookie and the Authorization
\* header (split at its spaces).
Credentials ==
    [cookie : {None} \cup {Some(t) : t \in TokenStrings},
     authorization : {None} \cup {<<"Bearer", t>> : t \in 1 .. MaxTokens}]

get_session_token_header_first(c) ==
    IF c.authorization # None /\ Len(c.authorization) >= 2
       /\ c.authorization[1] = "Bearer"
    THEN Some(c.authorization[2])
    ELSE IF TruthyTok(c.cookie) THEN c.cookie ELSE None

\* get_session_token: the cookie when truthy, else the word after "Bearer ".
get_session_token(c) ==
    IF TruthyTok(c.cookie) THEN c.cookie
    ELSE IF c.authorization # None /\ Len(c.authorization) >= 2
            /\ c.authorization[1] = "Bearer"
         THEN Some(c.authorization[2])
         ELSE None

VARIABLES users, sessions, bots, now, uuid, issued, deleted, reqs, base

vars == <<users, sessions, bots, now, uuid, issued, deleted, reqs, base>>

\* The store a request runs on.
Store == [users |-> users, sessions |-> sessions, bots |-> bots,
          uuid |-> uuid, now |-> now]

\* ------------------------------------------------------ responses, outcomes
Response(status, detail, user, rows, token, cookie) ==
    [status |-> status, detail |-> detail, user |-> user, bots |-> rows,
     token |-> token, cookie |-> cookie]
HTTPException(status, detail) == Response(status, detail, None, <<>>, 0, "none")

\* A request's outcome: its response and the store after it.
Outcome(r, S) == [resp |-> r, store |-> S]

UserResponse(u) ==
    [user_id |-> u.user_id, email |-> u.email, name |-> u.name,
     picture |-> u.picture, onboarding_completed |-> u.onboarding_completed]

\* Bugs get_current_user could have: the expiry of the session is not looked
\* at; a session is honoured on the very day it expires.
SessionUsersIgnoringExpiry(S, tok) ==
    {u \in S.users : \E s \in S.sessions :
        /\ s.user_id = u.user_id
        /\ s.session_token = tok}
SessionUsersThroughExpiry(S, tok) ==
    {u \in S.users : \E s \in S.sessions :
        /\ s.user_id = u.user_id
        /\ s.session_token = tok
        /\ s.expires_at >= S.now}

\* ------------------------------------------------------- get_current_user
\* SELECT u.* FROM users u JOIN sessions s ON u.user_id = s.user_id
\* WHERE s.session_token = tok AND s.expires_at > NOW()
SessionUsers(S, tok) ==
    {u \in S.users : \E s \in S.sessions :
        /\ s.user_id = u.user_id
        /\ s.session_token = tok
        /\ s.expires_at > S.now}

\* The 401 of get_current_user, or None when it returns a user.
AuthError(S, tok) ==
    IF ~TruthyTok(tok) THEN Some(HTTPException(401, "Not authenticated"))
    ELSE IF SessionUsers(S, tok[1]) = {}
         THEN Some(HTTPException(401, "Invalid or expired session"))
         ELSE None

\* The users get_current_user may return (fetchone of the join).
get_current_user(S, c) ==
    LET tok == get_session_token(c)
    IN  IF AuthError(S, tok) = None THEN SessionUsers(S, tok[1]) ELSE {}

\* user = await get_current_user(request), the first statement of a
\* protected route: when it raises, the 401 is the outcome of the request
\* and the store is as it was.
Unauthenticated(S, c) ==
    LET tok == get_session_token(c)
    IN  IF AuthError(S, tok) # None THEN {Outcome(AuthError(S, tok)[1], S)} ELSE {}

\* ---------------------------------------------------------- create_session
\* The external session ids a client may send ("" stands for a missing one).
ExternalSessionIds == {"", TestSessionId, "sid_ann"}

\* What the identity exchange may answer to GET .../session-data: status 200
\* with the profile, a non-200 status, or (status 0) no answer within the
\* 30 s timeout.
ExchangeProfiles ==
    {[email |-> "ann@example.com", name |-> "Ann", picture |-> None],
     [email |-> "ann@example.com", name |-> "Ann B", picture |-> Some("ann.png")]}
ExchangeOutcomes ==
    {[status |-> 200, data |-> Some(d)] : d \in ExchangeProfiles}
    \cup {[status |-> 401, data |-> None], [status |-> 0, data |-> None]}

\* INSERT INTO users (user_id, email, name, picture): the other columns take
\* their defaults (onboarding_completed false, settings {}).
NewUser(id, data) ==
    [user_id |-> id, email |-> data.email, name |-> data.name,
     picture |-> data.picture, onboarding_completed |-> FALSE,
     settings |-> EmptyMap]

\* A bug the upsert could have: the row of a returning user is written anew.
UpdateUserAsNew(u, data) ==
    [user_id |-> u.user_id, email |-> data.email, name |-> data.name,
     picture |-> data.picture, onboarding_completed |-> FALSE,
     settings |-> EmptyMap]

\* UPDATE users SET name, picture WHERE email
UpdateUser(u, data) == [u EXCEPT !.name = data.name, !.picture = data.picture]

\* Bugs the rotation could have: the old sessions are not deleted; the
\* delete names the new token instead of the user; the expiry is the time
\* of issue, the seven days forgotten.
RotateSessionsNoDelete(rows, uid, tok, expires) ==
    rows \cup {[session_token |-> tok, user_id |-> uid, expires_at |-> expires]}
RotateSessionsByToken(rows, uid, tok, expires) ==
    {s \in rows : s.session_token # tok}
    \cup {[session_token |-> tok, user_id |-> uid, expires_at |-> expires]}
RotateSessionsNoTTL(rows, uid, tok, expires) ==
    {s \in rows : s.user_id # uid}
    \cup {[session_token |-> tok, user_id |-> uid,
           expires_at |-> expires - SessionTTL]}

\* DELETE FROM sessions WHERE user_id, then INSERT INTO sessions.
RotateSessions(rows, uid, tok, expires) ==
    {s \in rows : s.user_id # uid}
    \cup {[session_token |-> tok, user_id |-> uid, expires_at |-> expires]}

\* Lines 106-173: the work of create_session once auth_data is known.
IssueSession(S, data) ==
    LET found == {u \in S.users : u.email = data.email}
        rows == IF found # {} THEN {UpdateUser(u, data) : u \in found}
                ELSE {NewUser(S.uuid.user, data)}
        tok == S.uuid.sess
    IN  {Outcome(Response(200, "", Some(UserResponse(user)), <<>>, tok, "set"),
                 [S EXCEPT !.users = (S.users \ found) \cup rows,
                           !.sessions = RotateSessions(S.sessions, user.user_id, tok,
                                                       S.now + SessionTTL),
                           !.uuid.sess = @ + 1,
                           !.uuid.user = IF found = {} THEN @ + 1 ELSE @])
         : user \in rows}

\* Lines 79-104: the error create_session raises before it reaches the
\* database, or None; and the auth_data it goes on with.
SessionRefusal(sid, ex) ==
    IF sid = "" THEN Some(HTTPException(400, "session_id required"))
    ELSE IF sid = TestSessionId THEN None
    ELSE IF ex.status = 0 THEN Some(HTTPException(500, "Internal Server Error"))
    ELSE IF ex.status # 200 THEN Some(HTTPException(401, "Invalid session_id"))
    ELSE None
AuthData(sid, ex) == IF sid = TestSessionId THEN TestAuthData ELSE ex.data[1]

create_session(S, sid, ex) ==
    IF SessionRefusal(sid, ex) # None THEN {Outcome(SessionRefusal(sid, ex)[1], S)}
    ELSE IssueSession(S, AuthData(sid, ex))

\* ------------------------------------------------------------------ get_me
get_me(S, c) ==
    Unauthenticated(S, c)
    \cup {Outcome(Response(200, "", Some(UserResponse(user)), <<>>, 0, "none"), S)
          : user \in get_current_user(S, c)}

\* ------------------------------------------------------------------ logout
\* A bug logout could have: the DELETE has no WHERE clause.
logout_everyone(S, c) ==
    LET tok == get_session_token(c)
    IN  {Outcome(Response(200, "Logged out successfully", None, <<>>, 0, "delete"),
                 IF TruthyTok(tok) THEN [S EXCEPT !.sessions = {}] ELSE S)}

logout(S, c) ==
    LET tok == get_session_token(c)
    IN  {Outcome(Response(200, "Logged out successfully", None, <<>>, 0, "delete"),
                 IF TruthyTok(tok)
                 THEN [S EXCEPT !.sessions = {s \in @ : s.session_token # tok[1]}]
                 ELSE S)}

\* ------------------------------------------------------ complete_onboarding
OnboardingData == {"p1", "p2"}

\* UPDATE users SET onboarding_completed = TRUE,
\*        settings = settings || {"onboarding": data} WHERE user_id
Onboard(u, data) ==
    [u EXCEPT !.onboarding_completed = TRUE,
              !.settings = JsonbConcat(@, [onboarding |-> data])]

complete_onboarding(S, c, data) ==
    Unauthenticated(S, c)
    \cup {Outcome(Response(200, "Onboarding completed", None, <<>>, 0, "none"),
                  [S EXCEPT !.users = {IF u.user_id = user.user_id
                                       THEN Onboard(u, data) ELSE u : u \in @}])
          : user \in get_current_user(S, c)}

\* -------------------------------------------------------------- bot routes
\* Bot ids a client may name: those ever generated and one that never is.
BotIds == 1 .. MaxBots + 1

\* BotCreate bodies (initial_investment 1000.0, is_virtual true and
\* settings {} are the defaults of the pydantic model).
BotCreateBodies ==
    {[name |-> "Bot1", strategy |-> "grid", trading_pair |-> "BTC/USDT",
      exchange |-> "binance", initial_investment |-> 1000, is_virtual |-> TRUE,
      settings |-> EmptyMap]}

\* BotUpdate bodies: every field is Optional and defaults to None.
BotUpdateBodies ==
    [name : {None, Some(""), Some("Bot2")},
     status : {None, Some(""), Some("running"), Some("stopped"), Some("paused")},
     settings : {None, Some(EmptyMap), Some([grid |-> "5"])}]

\* A bug Create could have: current_value starts at zero.
NewBotWithoutValue(id, uid, body, t) ==
    [bot_id |-> id, user_id |-> uid, name |-> body.name,
     strategy |-> body.strategy, trading_pair |-> body.trading_pair,
     exchange |-> body.exchange, initial_investment |-> body.initial_investment,
     current_value |-> 0, is_virtual |-> body.is_virtual,
     settings |-> body.settings, status |-> "stopped",
     created_at |-> t, updated_at |-> t]

\* INSERT INTO bots (...) VALUES (..., 'stopped'): created_at and updated_at
\* take the time of the insertion.
NewBot(id, uid, body, t) ==
    [bot_id |-> id, user_id |-> uid, name |-> body.name,
     strategy |-> body.strategy, trading_pair |-> body.trading_pair,
     exchange |-> body.exchange, initial_investment |-> body.initial_investment,
     current_value |-> body.initial_investment, is_virtual |-> body.is_virtual,
     settings |-> body.settings, status |-> "stopped",
     created_at |-> t, updated_at |-> t]

\* A bug the scope could have: the row is looked up by its id alone.
ScopedByIdOnly(rows, bid, uid) == {b \in rows : b.bot_id = bid}

\* WHERE bot_id = %s AND user_id = %s
Scoped(rows, bid, uid) == {b \in rows : b.bot_id = bid /\ b.user_id = uid}

\* A bug the SET list could have: a field is taken when it is not None, so
\* an empty name, status or mapping overwrites the stored one.
ApplyUpdateNotNone(b, body, t) ==
    [b EXCEPT !.name = IF body.name # None THEN body.name[1] ELSE @,
              !.status = IF body.status # None THEN body.status[1] ELSE @,
              !.settings = IF body.settings # None THEN body.settings[1] ELSE @,
              !.updated_at = t]

\* The dynamically built SET list of update_bot, applied to one row at NOW() = t.
ApplyUpdate(b, body, t) ==
    [b EXCEPT !.name = IF TruthyStr(body.name) THEN body.name[1] ELSE @,
              !.status = IF TruthyStr(body.status) THEN body.status[1] ELSE @,
              !.settings = IF TruthyDict(body.settings) THEN body.settings[1] ELSE @,
              !.updated_at = t]

\* Bugs start and stop could have: the transition is taken only from the
\* two known statuses; updated_at is left as it was.
SetStatusFromKnown(b, status, t) ==
    IF b.status \in {"stopped", "running"}
    THEN [b EXCEPT !.status = status, !.updated_at = t]
    ELSE [b EXCEPT !.updated_at = t]
SetStatusKeepTime(b, status, t) == [b EXCEPT !.status = status]

\* SET status = ..., updated_at = NOW()
SetStatus(b, status, t) == [b EXCEPT !.status = status, !.updated_at = t]

\* ORDER BY created_at DESC: the orders the store may return a set of rows in.
OrderByCreatedDesc(rows) ==
    {q \in [1 .. Cardinality(rows) -> rows] :
        /\ \A i, j \in DOMAIN q : i # j => q[i] # q[j]
        /\ \A i, j \in DOMAIN q : i < j => q[i].created_at >= q[j].created_at}

get_bots(S, c) ==
    Unauthenticated(S, c)
    \cup UNION {{Outcome(Response(200, "", None, rows, 0, "none"), S)
                 : rows \in OrderByCreatedDesc({b \in S.bots : b.user_id = user.user_id})}
                : user \in get_current_user(S, c)}

create_bot(S, c, body) ==
    Unauthenticated(S, c)
    \cup {LET bot == NewBot(S.uuid.bot, user.user_id, body, S.now)
          IN  Outcome(Response(200, "", None, <<bot>>, 0, "none"),
                      [S EXCEPT !.bots = @ \cup {bot}, !.uuid.bot = @ + 1])
          : user \in get_current_user(S, c)}

\* The response of a route on one bot: the row its statement returned
\* (fetchone), or 404 when it returned none.
BotResponse(returned) ==
    IF returned = {} THEN {HTTPException(404, "Bot not found")}
    ELSE {Response(200, "", None, <<b>>, 0, "none") : b \in returned}

get_bot(S, c, bid) ==
    Unauthenticated(S, c)
    \cup UNION {{Outcome(r, S) : r \in BotResponse(Scoped(S.bots, bid, user.user_id))}
                : user \in get_current_user(S, c)}

\* UPDATE bots SET ... RETURNING *, commit, then the 404 when no row came
\* back: hit are the rows the WHERE matched, returned the rows as written.
UpdateReturning(S, hit, returned) ==
    {Outcome(r, [S EXCEPT !.bots = (@ \ hit) \cup returned])
     : r \in BotResponse(returned)}

update_bot(S, c, bid, body) ==
    Unauthenticated(S, c)
    \cup UNION {LET hit == Scoped(S.bots, bid, user.user_id)
                IN  UpdateReturning(S, hit, {ApplyUpdate(b, body, S.now) : b \in hit})
                : user \in get_current_user(S, c)}

start_bot(S, c, bid) ==
    Unauthenticated(S, c)
    \cup UNION {LET hit == Scoped(S.bots, bid, user.user_id)
                IN  UpdateReturning(S, hit, {SetStatus(b, "running", S.now) : b \in hit})
                : user \in get_current_user(S, c)}

stop_bot(S, c, bid) ==
    Unauthenticated(S, c)
    \cup UNION {LET hit == Scoped(S.bots, bid, user.user_id)
                IN  UpdateReturning(S, hit, {SetStatus(b, "stopped", S.now) : b \in hit})
                : user \in get_current_user(S, c)}

\* A bug Delete could have: the row is marked as deleted and stays.
delete_bot_marking(S, c, bid) ==
    Unauthenticated(S, c)
    \cup {LET hit == Scoped(S.bots, bid, user.user_id)
          IN  Outcome(IF hit = {} THEN HTTPException(404, "Bot not found")
                      ELSE Response(200, "Bot deleted successfully", None,
                                    <<>>, 0, "none"),
                      [S EXCEPT !.bots = (@ \ hit)
                                    \cup {[b EXCEPT !.status = "deleted"] : b \in hit}])
          : user \in get_current_user(S, c)}

\* DELETE FROM bots WHERE bot_id AND user_id RETURNING bot_id
delete_bot(S, c, bid) ==
    Unauthenticated(S, c)
    \cup {LET hit == Scoped(S.bots, bid, user.user_id)
          IN  Outcome(IF hit = {} THEN HTTPException(404, "Bot not found")
                      ELSE Response(200, "Bot deleted successfully", None,
                                    <<>>, 0, "none"),
                      [S EXCEPT !.bots = @ \ hit])
          : user \in get_current_user(S, c)}

\* ------------------------------------------- requests, statement by statement
\* A request in flight, in a worker of its own: where it stands (pc), what
\* it was sent (kind, sid, cred, bid, body), the connections it holds
\* (conn), the rows its statements returned (data, found, user, tok,
\* returned), the writes of its open transaction (w), the session rows its
\* DELETE waits for (wait), and its response (resp).
Procs == 1 .. MaxRequests

NoWrites ==
    [users_upd |-> {}, users_ins |-> {}, sess_del |-> {}, sess_ins |-> {},
     bots_del |-> {}, bots_ins |-> {}]

NoCredentials == [cookie |-> None, authorization |-> None]
NoBody == [name |-> None, status |-> None, settings |-> None]

Idle ==
    [pc |-> "idle", kind |-> "none", sid |-> "", cred |-> NoCredentials,
     bid |-> 0, body |-> NoBody, conn |-> 0, data |-> None, found |-> {},
     user |-> None, tok |-> 0, returned |-> {}, w |-> NoWrites, wait |-> {},
     resp |-> None]

\* The store's row locks (READ COMMITTED): a transaction that has updated
\* or deleted a row holds the row until it commits or its connection is
\* closed.  The user ids, session tokens and bot ids request r holds.
UnlockedUsers(r) == {}
LockedUsers(r) == {u.user_id : u \in r.w.users_upd}
LockedSessions(r) == {s.session_token : s \in r.w.sess_del}
UnlockedBots(r) == {}
LockedBots(r) == {b.bot_id : b \in r.w.bots_del}

\* conn.commit(): the writes of the transaction reach the tables.
Committed(S, w) ==
    [S EXCEPT !.users = {u \in @ : \A v \in w.users_upd : v.user_id # u.user_id}
                            \cup w.users_upd \cup w.users_ins,
              !.sessions = (@ \ w.sess_del) \cup w.sess_ins,
              !.bots = (@ \ w.bots_del) \cup w.bots_ins]

ClosedCommitting(S, w) == Committed(S, w)

\* conn.close() in the finally clause: what was not committed is rolled back.
Closed(S, w) == S

\* The tables after a step of request p that wrote S to the store.
Stored(S) ==
    /\ users' = S.users
    /\ sessions' = S.sessions
    /\ bots' = S.bots
    /\ uuid' = S.uuid
    /\ now' = now

\* The connections request r holds: psycopg2.connect opens one more,
\* conn.close() releases one.
connection_leaking(r) == r
get_db_connection(r) == [r EXCEPT !.conn = @ + 1]
connection_close(r) == [r EXCEPT !.conn = @ - 1]

\* A request that has ended: what it was sent, what it answered, and the
\* connections it still holds.
Done(r, resp) ==
    [Idle EXCEPT !.pc = "done", !.kind = r.kind, !.sid = r.sid, !.cred = r.cred,
                 !.bid = r.bid, !.body = r.body, !.conn = r.conn,
                 !.resp = Some(resp)]

\* request p goes on as r.
Step(p, r) ==
    /\ reqs' = [reqs EXCEPT ![p] = r]
    /\ base' = base

Reads(p, r) ==
    /\ Step(p, r)
    /\ UNCHANGED <<users, sessions, bots, now, uuid, issued, deleted>>

\* Some other request in flight holds one of the rows.
UsersHeld(p, ids) == \E q \in Procs \ {p} : LockedUsers(reqs[q]) \cap ids # {}
SessionsHeld(p, toks) == \E q \in Procs \ {p} : LockedSessions(reqs[q]) \cap toks # {}
BotsHeld(p, ids) == \E q \in Procs \ {p} : LockedBots(reqs[q]) \cap ids # {}

\* create_session, lines 79-110: the body is read, the exchange is asked,
\* and the connection is opened unless the request is refused.
BeginSession(p, sid, ex) ==
    /\ reqs[p].pc = "idle"
    /\ LET r == [Idle EXCEPT !.kind = "session", !.sid = sid]
       IN  Reads(p, IF SessionRefusal(sid, ex) # None
                    THEN Done(r, SessionRefusal(sid, ex)[1])
                    ELSE [get_db_connection(r) EXCEPT
                                !.pc = "select", !.data = Some(AuthData(sid, ex))])

\* Line 115: SELECT * FROM users WHERE email.
SelectUser(p) ==
    /\ reqs[p].pc = "select"
    /\ Reads(p, [reqs[p] EXCEPT !.pc = "upsert",
                                !.found = {u \in users : u.email = reqs[p].data[1].email}])

\* Lines 118-133: UPDATE users ... WHERE email RETURNING * when the SELECT
\* found the user (the statement waits for the rows another transaction
\* holds), INSERT INTO users under a fresh user_id when it did not.
UpsertUser(p) ==
    LET r == reqs[p]
        hit == {u \in users : u.email = r.data[1].email}
        written == {UpdateUser(u, r.data[1]) : u \in hit}
        new == NewUser(uuid.user, r.data[1])
    IN  /\ r.pc = "upsert"
        /\ IF r.found # {}
           THEN /\ ~UsersHeld(p, {u.user_id : u \in hit})
                /\ \E u \in written :
                        Step(p, [r EXCEPT !.pc = "rotate", !.user = Some(u),
                                          !.w.users_upd = written])
                /\ uuid' = uuid
           ELSE /\ Step(p, [r EXCEPT !.pc = "rotate", !.user = Some(new),
                                     !.w.users_ins = {new}])
                /\ uuid' = [uuid EXCEPT !.user = @ + 1]
        /\ UNCHANGED <<users, sessions, bots, now, issued, deleted>>

\* Lines 136-141: the token is generated, then DELETE FROM sessions WHERE
\* user_id: the rows the statement sees are deleted at once when no other
\* transaction holds one of them; otherwise the statement waits for them.
DeleteSessions(p) ==
    LET r == reqs[p]
        seen == {s \in sessions : s.user_id = r.user[1].user_id}
    IN  /\ r.pc = "rotate"
        /\ Step(p, IF SessionsHeld(p, {s.session_token : s \in seen})
                    THEN [r EXCEPT !.pc = "rotate_wait", !.tok = uuid.sess,
                                   !.wait = seen]
                    ELSE [r EXCEPT !.pc = "insert", !.tok = uuid.sess,
                                   !.w.sess_del = seen])
        /\ uuid' = [uuid EXCEPT !.sess = @ + 1]
        /\ UNCHANGED <<users, sessions, bots, now, issued, deleted>>

\* The DELETE goes on when the rows it waited for are released: it deletes
\* those that are still there, and sees no row committed since it began.
DeleteSessionsWake(p) ==
    LET r == reqs[p]
    IN  /\ r.pc = "rotate_wait"
        /\ ~SessionsHeld(p, {s.session_token : s \in r.wait})
        /\ Reads(p, [r EXCEPT !.pc = "insert", !.wait = {},
                              !.w.sess_del = r.wait \cap sessions])

\* Lines 138, 144-147: INSERT INTO sessions.
InsertSession(p) ==
    LET r == reqs[p]
    IN  /\ r.pc = "insert"
        /\ Reads(p, [r EXCEPT !.pc = "commit",
                              !.w.sess_ins = {[session_token |-> r.tok,
                                               user_id |-> r.user[1].user_id,
                                               expires_at |-> now + SessionTTL]}])

\* Line 149: conn.commit().
CommitSession(p) ==
    LET r == reqs[p]
    IN  /\ r.kind = "session" /\ r.pc = "commit"
        /\ Stored(Committed(Store, r.w))
        /\ Step(p, [r EXCEPT !.pc = "close", !.w = NoWrites])
        /\ issued' = issued \cup {[session_token |-> r.tok,
                                    user_id |-> r.user[1].user_id,
                                    issued_at |-> now]}
        /\ deleted' = deleted

\* Lines 152-173: the cookie is set, the response returned, and the
\* connection closed in the finally clause.
CloseSession(p) ==
    LET r == reqs[p]
    IN  /\ r.kind = "session" /\ r.pc = "close"
        /\ Reads(p, Done(connection_close(r),
                         Response(200, "", Some(UserResponse(r.user[1])),
                                  <<>>, r.tok, "set")))

\* logout, lines 190-193: without a token no connection is opened.
BeginLogout(p, c) ==
    /\ reqs[p].pc = "idle"
    /\ LET r == [Idle EXCEPT !.kind = "logout", !.cred = c]
       IN  Reads(p, IF TruthyTok(get_session_token(c))
                    THEN [get_db_connection(r) EXCEPT !.pc = "logout"]
                    ELSE Done(r, Response(200, "Logged out successfully", None,
                                          <<>>, 0, "delete")))

\* Line 196: DELETE FROM sessions WHERE session_token; the statement waits
\* for the row while another transaction holds it.
LogoutStatement(p) ==
    LET r == reqs[p]
        hit == {s \in sessions : s.session_token = get_session_token(r.cred)[1]}
    IN  /\ r.pc = "logout"
        /\ ~SessionsHeld(p, {s.session_token : s \in hit})
        /\ Reads(p, [r EXCEPT !.pc = "commit", !.w.sess_del = hit])

\* Line 197: conn.commit().
CommitLogout(p) ==
    LET r == reqs[p]
    IN  /\ r.kind = "logout" /\ r.pc = "commit"
        /\ Stored(Committed(Store, r.w))
        /\ Step(p, [r EXCEPT !.pc = "close", !.w = NoWrites])
        /\ UNCHANGED <<issued, deleted>>

\* Lines 198-202: the connection is closed, the cookie deleted.
CloseLogout(p) ==
    LET r == reqs[p]
    IN  /\ r.kind = "logout" /\ r.pc = "close"
        /\ Reads(p, Done(connection_close(r),
                         Response(200, "Logged out successfully", None,
                                  <<>>, 0, "delete")))

\* The bot routes that write one row: update_bot, start_bot, stop_bot and
\* delete_bot.  get_current_user, lines 56-61: without a token the request
\* is refused before any connection is opened.
MutationKinds == {"update", "start", "stop", "delete"}

BeginMutation(p, kind, c, bid, body) ==
    /\ reqs[p].pc = "idle"
    /\ LET r == [Idle EXCEPT !.kind = kind, !.cred = c, !.bid = bid, !.body = body]
       IN  Reads(p, IF ~TruthyTok(get_session_token(c))
                    THEN Done(r, AuthError(Store, get_session_token(c))[1])
                    ELSE [get_db_connection(r) EXCEPT !.pc = "auth"])

\* get_current_user, lines 62-73: the join is selected and the connection
\* closed; the request goes on as the user found, or ends with 401.
AuthSelect(p) ==
    LET r == reqs[p]
        tok == get_session_token(r.cred)
    IN  /\ r.pc = "auth"
        /\ IF AuthError(Store, tok) # None
           THEN Reads(p, Done(connection_close(r), AuthError(Store, tok)[1]))
           ELSE \E u \in SessionUsers(Store, tok[1]) :
                    Reads(p, [connection_close(r) EXCEPT !.pc = "open",
                                                         !.user = Some(u)])

\* conn = get_db_connection() of the route.
OpenConnection(p) ==
    /\ reqs[p].pc = "open"
    /\ Reads(p, [get_db_connection(reqs[p]) EXCEPT !.pc = "stmt"])

\* The row a statement of kind writes in place of row b.
Written(kind, b, body, t) ==
    IF kind = "update" THEN {ApplyUpdate(b, body, t)}
    ELSE IF kind = "start" THEN {SetStatus(b, "running", t)}
    ELSE IF kind = "stop" THEN {SetStatus(b, "stopped", t)}
    ELSE {}

\* UPDATE bots ... / DELETE FROM bots WHERE bot_id AND user_id RETURNING:
\* the statement waits for the row while another transaction holds it.
Statement(p) ==
    LET r == reqs[p]
        hit == Scoped(bots, r.bid, r.user[1].user_id)
        written == UNION {Written(r.kind, b, r.body, now) : b \in hit}
    IN  /\ r.pc = "stmt"
        /\ ~BotsHeld(p, {b.bot_id : b \in hit})
        /\ Reads(p, [r EXCEPT !.pc = "commit",
                              !.returned = IF r.kind = "delete" THEN hit ELSE written,
                              !.w.bots_del = hit, !.w.bots_ins = written])

\* conn.commit() of the route.
CommitMutation(p) ==
    LET r == reqs[p]
    IN  /\ r.kind \in MutationKinds /\ r.pc = "commit"
        /\ Stored(Committed(Store, r.w))
        /\ Step(p, [r EXCEPT !.pc = "close", !.w = NoWrites])
        /\ deleted' = IF r.kind = "delete" /\ r.returned # {}
                      THEN deleted \cup {r.bid} ELSE deleted
        /\ issued' = issued

\* The 404 when the statement returned no row, else the response; the
\* connection is closed in the finally clause.
CloseMutation(p) ==
    LET r == reqs[p]
        answers == IF r.kind # "delete" THEN BotResponse(r.returned)
                   ELSE IF r.returned = {} THEN {HTTPException(404, "Bot not found")}
                   ELSE {Response(200, "Bot deleted successfully", None, <<>>, 0, "none")}
    IN  /\ r.kind \in MutationKinds /\ r.pc = "close"
        /\ \E a \in answers : Reads(p, Done(connection_close(r), a))

\* A statement (or the commit) raises: the finally clause closes the
\* connection, and the request ends with 500.
FailingAt ==
    {"auth", "select", "upsert", "rotate", "rotate_wait", "insert", "logout",
     "stmt", "commit"}

Fail(p) ==
    LET r == reqs[p]
    IN  /\ r.pc \in FailingAt
        /\ Stored(Closed(Store, r.w))
        /\ Step(p, Done(connection_close(r),
                        HTTPException(500, "Internal Server Error")))
        /\ UNCHANGED <<issued, deleted>>

\* ---------------------------------------------------------------- requests
Init ==
    /\ users = {}
    /\ sessions = {}
    /\ bots = {}
    /\ now = 0
    /\ uuid = [user |-> 1, sess |-> 1, bot |-> 1]
    /\ issued = {}
    /\ deleted = {}
    /\ reqs = [p \in Procs |-> Idle]
    /\ base = Store

\* One whole request with outcome o, served while no other is in flight: the
\* store is the one the route leaves.  issued keeps every session ever
\* issued (its token, its user and the time it was issued); base is the
\* store as the last request served alone left it.
Served(o) ==
        /\ o.store.uuid.sess <= MaxTokens + 1
        /\ o.store.uuid.bot <= MaxBots + 1
        /\ users' = o.store.users
        /\ sessions' = o.store.sessions
        /\ bots' = o.store.bots
        /\ uuid' = o.store.uuid
        /\ now' = now
        /\ \A p \in Procs : reqs[p].pc = "idle"
        /\ reqs' = reqs
        /\ base' = o.store
        /\ issued' = IF o.resp.cookie = "set"
                     THEN issued \cup {[session_token |-> o.resp.token,
                                        user_id |-> o.resp.user[1].user_id,
                                        issued_at |-> now]}
                     ELSE issued

\* A request of a route other than Delete: one outcome of the route on the
\* current store.
Request(outcomes) ==
    \E o \in outcomes : Served(o) /\ deleted' = deleted

CreateSession(sid, ex) ==
    Request(create_session(Store, sid, ex))
GetMe(c) == Request(get_me(Store, c))
Logout(c) == Request(logout(Store, c))
CompleteOnboarding(c, data) ==
    Request(complete_onboarding(Store, c, data))
GetBots(c) == Request(get_bots(Store, c))
CreateBot(c, body) == Request(create_bot(Store, c, body))
GetBot(c, bid) == Request(get_bot(Store, c, bid))
UpdateBot(c, bid, body) ==
    Request(update_bot(Store, c, bid, body))
\* deleted keeps the bot ids whose Delete was answered 200.
DeleteBot(c, bid) ==
    \E o \in delete_bot(Store, c, bid) :
        /\ Served(o)
        /\ deleted' = IF o.resp.status = 200 THEN deleted \cup {bid} ELSE deleted
StartBot(c, bid) == Request(start_bot(Store, c, bid))
StopBot(c, bid) == Request(stop_bot(Store, c, bid))

\* Time passes between requests.
Tick(d) ==
    /\ now + d <= MaxTime
    /\ now' = now + d
    /\ UNCHANGED <<users, sessions, bots, uuid, issued, deleted, reqs>>
    /\ base' = [base EXCEPT !.now = now']

\* ---------------------------------------------------------- specifications
\* The requests the clients of the model send carry a session cookie that
\* was issued at some time: a request that get_current_user rejects leaves
\* the store as it is.
SentCredentials ==
    {c \in Credentials : c.authorization = None /\ c.cookie # None
                          /\ c.cookie[1] \in 1 .. MaxTokens}

\* The session authenticator: every answer of the exchange, both onboarding
\* payloads, the clock read day by day.
NextAuth ==
    \/ \E sid \in ExternalSessionIds, ex \in ExchangeOutcomes : CreateSession(sid, ex)
    \/ \E c \in SentCredentials : GetMe(c)
    \/ \E c \in SentCredentials : Logout(c)
    \/ \E c \in SentCredentials, data \in OnboardingData : CompleteOnboarding(c, data)
    \/ \E d \in {1, SessionTTL - 1} : Tick(d)

SpecAuth == Init /\ [][NextAuth]_vars

\* The bot routes, for the users the sentinel id and the exchange log in:
\* the owner sends no field, a name with settings, or a status outside the
\* enumeration.  The clock is read again when the sessions of the last
\* reading expire.
SentExchange == {ex \in ExchangeOutcomes : ex.status = 200 /\ ex.data[1].name = "Ann"}
SentUpdates ==
    {b \in BotUpdateBodies :
        \/ b = [name |-> None, status |-> None, settings |-> None]
        \/ b = [name |-> Some("Bot2"), status |-> None,
                 settings |-> Some([grid |-> "5"])]
        \/ b = [name |-> None, status |-> Some("paused"), settings |-> None]}
ExpirySteps == {SessionTTL}

NextBots ==
    \/ \E sid \in {TestSessionId, "sid_ann"}, ex \in SentExchange : CreateSession(sid, ex)
    \/ \E c \in SentCredentials : GetBots(c)
    \/ \E c \in SentCredentials, body \in BotCreateBodies : CreateBot(c, body)
    \/ \E c \in SentCredentials, bid \in BotIds : GetBot(c, bid)
    \/ \E c \in SentCredentials, bid \in BotIds, body \in SentUpdates :
            UpdateBot(c, bid, body)
    \/ \E c \in SentCredentials, bid \in BotIds : DeleteBot(c, bid)
    \/ \E c \in SentCredentials, bid \in BotIds : StartBot(c, bid)
    \/ \E c \in SentCredentials, bid \in BotIds : StopBot(c, bid)
    \/ \E d \in ExpirySteps : Tick(d)

SpecBots == Init /\ [][NextBots]_vars

\* The users table: logins under every answer of the exchange, onboarding
\* and logout, within the life of a session.
NextUsers ==
    \/ \E sid \in ExternalSessionIds, ex \in ExchangeOutcomes : CreateSession(sid, ex)
    \/ \E c \in SentCredentials : GetMe(c)
    \/ \E c \in SentCredentials : Logout(c)
    \/ \E c \in SentCredentials, data \in OnboardingData : CompleteOnboarding(c, data)

SpecUsers == Init /\ [][NextUsers]_vars

\* The life of the bots of two users between their logins and the expiry of
\* their sessions: the writes of the bot routes, the owner sending one field
\* at a time.
OneField ==
    {b \in BotUpdateBodies :
        /\ Cardinality({f \in {"name", "status", "settings"} : b[f] # None}) = 1
        /\ b.name \in {None, Some("Bot2")}
        /\ b.status \in {None, Some("paused")}
        /\ b.settings \in {None, Some([grid |-> "5"])}}

NextLife ==
    \/ \E sid \in {TestSessionId, "sid_ann"}, ex \in SentExchange : CreateSession(sid, ex)
    \/ \E c \in SentCredentials, body \in BotCreateBodies : CreateBot(c, body)
    \/ \E c \in SentCredentials, bid \in BotIds, body \in OneField :
            UpdateBot(c, bid, body)
    \/ \E c \in SentCredentials, bid \in BotIds : DeleteBot(c, bid)
    \/ \E c \in SentCredentials, bid \in BotIds : StartBot(c, bid)
    \/ \E c \in SentCredentials, bid \in BotIds : StopBot(c, bid)

SpecLife == Init /\ [][NextLife]_vars

\* Requests side by side, each in a worker of its own, after the sentinel
\* user has logged in and created a bot: logins under the sentinel id, with
\* no id and under an id the exchange rejects, logouts, and the owner's
\* writes on the bot.  Worker p takes a request when the workers before it have one.
SentMutations == {b \in SentUpdates : b.status # None}
SentRefusals == {ex \in ExchangeOutcomes : ex.status = 401}

NextSide ==
    \/ \E ex \in SentRefusals : sessions = {} /\ CreateSession(TestSessionId, ex)
    \/ \E c \in SentCredentials, body \in BotCreateBodies :
            bots = {} /\ CreateBot(c, body)
    \/ \E p \in Procs :
        /\ \A q \in Procs : q < p => reqs[q].pc # "idle"
        /\ \/ \E sid \in ExternalSessionIds, ex \in SentRefusals :
                    BeginSession(p, sid, ex)
           \/ \E c \in SentCredentials :
                    get_current_user(Store, c) # {} /\ BeginLogout(p, c)
           \/ \E kind \in MutationKinds, c \in SentCredentials, b \in bots,
                 body \in SentMutations :
                    /\ get_current_user(Store, c) # {}
                    /\ BeginMutation(p, kind, c, b.bot_id, body)
    \/ \E p \in Procs : SelectUser(p)
    \/ \E p \in Procs : UpsertUser(p)
    \/ \E p \in Procs : DeleteSessions(p)
    \/ \E p \in Procs : DeleteSessionsWake(p)
    \/ \E p \in Procs : InsertSession(p)
    \/ \E p \in Procs : CommitSession(p)
    \/ \E p \in Procs : CloseSession(p)
    \/ \E p \in Procs : LogoutStatement(p)
    \/ \E p \in Procs : CommitLogout(p)
    \/ \E p \in Procs : CloseLogout(p)
    \/ \E p \in Procs : AuthSelect(p)
    \/ \E p \in Procs : OpenConnection(p)
    \/ \E p \in Procs : Statement(p)
    \/ \E p \in Procs : CommitMutation(p)
    \/ \E p \in Procs : CloseMutation(p)
    \/ \E p \in Procs : Fail(p)

SpecSide == Init /\ [][NextSide]_vars

\* The whole API.
Next == NextAuth \/ NextBots

Spec == Init /\ [][Next]_vars

\* ================================================================== claims
\* The claims are checked in every reachable store, for every request a
\* client can send there: credentials in the cookie or in the header, every
\* bot id, every body.
Clients == {c \in Credentials : c.cookie = None \/ c.authorization = None}
Cookie(t) == [cookie |-> Some(t), authorization |-> None]
Bearer(t) == [cookie |-> None, authorization |-> <<"Bearer", t>>]

\* A bot id no row carries.
MissingBotId == MaxBots + 1

\* The route answered, with 404 "Bot not found" and nothing else, and left
\* the store as it was.
NotFound(outcomes) ==
    /\ outcomes # {}
    /\ \A o \in outcomes :
        /\ o.resp = HTTPException(404, "Bot not found")
        /\ o.store = Store

\* Client c is authenticated, as user uid and no other.
AuthenticatedAs(c, uid) ==
    /\ get_current_user(Store, c) # {}
    /\ \A u \in get_current_user(Store, c) : u.user_id = uid

\* C1. Owner isolation: whenever a bot exists and a client is authenticated
\* as a user other than the bot's owner, that client's Get, Update (with any
\* body), Delete, Start and Stop on the bot's id all answer 404 "Bot not
\* found", exactly as they do on an id no bot has, and leave the store, the
\* bot's row included, unchanged.
C1_OwnerIsolation ==
    \A b \in bots : \A c \in Clients : \A u \in get_current_user(Store, c) :
        (AuthenticatedAs(c, u.user_id) /\ u.user_id # b.user_id) =>
            \A bid \in {b.bot_id, MissingBotId} :
                /\ NotFound(get_bot(Store, c, bid))
                /\ NotFound(delete_bot(Store, c, bid))
                /\ NotFound(start_bot(Store, c, bid))
                /\ NotFound(stop_bot(Store, c, bid))
                /\ \A body \in BotUpdateBodies : NotFound(update_bot(Store, c, bid, body))

\* A bot that its owner has started, and another user, logged in, whose
\* Delete on it answers 404.
C1_Witness ==
    \E b \in bots : \E t \in 1 .. MaxTokens : \E u \in get_current_user(Store, Cookie(t)) :
        /\ b.status = "running"
        /\ u.user_id # b.user_id
        /\ \E o \in delete_bot(Store, Cookie(t), b.bot_id) : o.resp.status = 404

\* C2. Single session per user: in every state reached by completed
\* requests, the sessions table holds at most one row per user_id.
C2_SingleSession ==
    \A s1, s2 \in sessions : s1.user_id = s2.user_id => s1 = s2

\* A user who has been issued two sessions and holds one row.
C2_Witness ==
    \E i1, i2 \in issued :
        /\ i1.user_id = i2.user_id
        /\ i1.session_token # i2.session_token
        /\ Cardinality({s \in sessions : s.user_id = i1.user_id}) = 1

\* C3. Session rotation: once a later session has been issued to the same
\* user, the token of an earlier one resolves to nobody: get_current_user
\* answers 401 for it, in the cookie or in the header, in every later state.
C3_SessionRotation ==
    \A i1, i2 \in issued :
        (i1.user_id = i2.user_id /\ i1.session_token < i2.session_token) =>
            \A c \in {Cookie(i1.session_token), Bearer(i1.session_token)} :
                /\ get_current_user(Store, c) = {}
                /\ \A o \in get_me(Store, c) : o.resp.status = 401

\* Two sessions issued to one user: the second token resolves to the user,
\* the first is refused.
C3_Witness ==
    \E i1, i2 \in issued :
        /\ i1.user_id = i2.user_id
        /\ i1.session_token < i2.session_token
        /\ \E u \in get_current_user(Store, Cookie(i2.session_token)) :
                u.user_id = i1.user_id
        /\ \E o \in get_me(Store, Cookie(i1.session_token)) : o.resp.status = 401

\* The external session ids the exchange accepts, with the email it resolves:
\* the sentinel id, and any other id the exchange answers with status 200.
Accepted(sid, ex) == sid = TestSessionId \/ (sid # "" /\ ex.status = 200)
ResolvedEmail(sid, ex) == IF sid = TestSessionId THEN TestEmail ELSE ex.data[1].email

\* C4. Round trip: for every accepted external session id, create_session
\* answers 200 with a token, and get_current_user with that token, on the
\* store create_session leaves and at the same clock reading, returns a
\* user, the one of the response, whose email is the resolved email.
C4_RoundTrip ==
    \A sid \in ExternalSessionIds, ex \in ExchangeOutcomes :
        Accepted(sid, ex) =>
            \A o \in create_session(Store, sid, ex) :
                /\ o.resp.status = 200
                /\ o.resp.cookie = "set"
                /\ \A c \in {Cookie(o.resp.token), Bearer(o.resp.token)} :
                    /\ get_current_user(o.store, c) # {}
                    /\ \A u \in get_current_user(o.store, c) :
                        /\ u.email = ResolvedEmail(sid, ex)
                        /\ UserResponse(u) = o.resp.user[1]

\* A user the exchange resolved, logged in for the second time after the
\* clock has advanced: the token just issued resolves to that user.
C4_Witness ==
    \E i1, i2 \in issued : \E s \in sessions :
        /\ i1.user_id = i2.user_id /\ i1.session_token < i2.session_token
        /\ s.session_token = i2.session_token
        /\ s.expires_at = now + SessionTTL /\ now > 0
        /\ \E u \in get_current_user(Store, Cookie(s.session_token)) :
                u.email # TestEmail /\ u.user_id = s.user_id

\* The cases in which a request carries no valid session: no token or an
\* empty one; a token no session row carries; a token whose session row has
\* expired.
NoValidSession(c) ==
    LET tok == get_session_token(c)
    IN  \/ tok = None
        \/ tok[1] = 0
        \/ \A s \in sessions : s.session_token = tok[1] => s.expires_at <= now

\* The route answered, with 401 and nothing else, and did nothing.
Refused(outcomes) ==
    /\ outcomes # {}
    /\ \A o \in outcomes :
        /\ o.resp.status = 401
        /\ o.resp.detail \in {"Not authenticated", "Invalid or expired session"}
        /\ o.resp.bots = <<>> /\ o.resp.user = None
        /\ o.store = Store

\* C5. Authentication gate: a request that carries no token, an empty one,
\* one that matches no session, or one whose session has expired is answered
\* 401 by every protected route (me, onboarding, and the seven bot routes,
\* with any bot id and any body), which reads out nothing and leaves the
\* store unchanged.
C5_AuthenticationGate ==
    \A c \in Clients :
        NoValidSession(c) =>
            /\ Refused(get_me(Store, c))
            /\ Refused(get_bots(Store, c))
            /\ \A data \in OnboardingData : Refused(complete_onboarding(Store, c, data))
            /\ \A body \in BotCreateBodies : Refused(create_bot(Store, c, body))
            /\ \A bid \in BotIds :
                /\ Refused(get_bot(Store, c, bid))
                /\ Refused(delete_bot(Store, c, bid))
                /\ Refused(start_bot(Store, c, bid))
                /\ Refused(stop_bot(Store, c, bid))
                /\ \A body \in BotUpdateBodies : Refused(update_bot(Store, c, bid, body))

\* The owner of a bot, whose session has expired and is still stored: the
\* Delete of the bot with that session's token is answered 401 and the bot
\* stays.
C5_Witness ==
    \E b \in bots : \E s \in sessions :
        /\ s.user_id = b.user_id
        /\ s.expires_at <= now
        /\ \A o \in delete_bot(Store, Cookie(s.session_token), b.bot_id) :
                o.resp.status = 401 /\ b \in o.store.bots

\* C6. Session expiry: a session is stored with the expiry seven days after
\* its creation; its token authenticates its user while the clock reads
\* less than that expiry, and is answered 401 from the moment the clock
\* reaches it, the row still stored.
C6_SessionExpiry ==
    /\ \A sid \in ExternalSessionIds, ex \in ExchangeOutcomes :
            Accepted(sid, ex) =>
                \A o \in create_session(Store, sid, ex) :
                    \E s \in o.store.sessions :
                        /\ s.session_token = o.resp.token
                        /\ s.expires_at = now + SessionTTL
    /\ \A s \in sessions : \E i \in issued :
            /\ i.session_token = s.session_token
            /\ i.user_id = s.user_id
            /\ s.expires_at = i.issued_at + SessionTTL
    /\ \A s \in sessions :
            \A c \in {Cookie(s.session_token), Bearer(s.session_token)} :
                IF now < s.expires_at
                THEN /\ get_current_user(Store, c) # {}
                     /\ \A u \in get_current_user(Store, c) : u.user_id = s.user_id
                     /\ \A o \in get_me(Store, c) : o.resp.status = 200
                ELSE /\ get_current_user(Store, c) = {}
                     /\ get_me(Store, c)
                            = {Outcome(HTTPException(401, "Invalid or expired session"),
                                       Store)}

\* A session on the very day of its expiry, seven days after it was issued:
\* it is stored and its token is refused.
C6_Witness ==
    \E s \in sessions : \E i \in issued :
        /\ i.session_token = s.session_token
        /\ now = i.issued_at + SessionTTL
        /\ s.expires_at = now
        /\ \A o \in get_me(Store, Cookie(s.session_token)) : o.resp.status = 401

\* C7. Bot status enumeration (as the specification states it): every
\* stored bot's status is 'stopped' or 'running'.  update_bot stores any
\* non-empty status string, so the statement does not hold of the code.
C7_StatusEnumeration ==
    \A b \in bots : b.status \in {"stopped", "running"}

\* The row of bot id bid in store S, and the statuses it carries.
Row(S, bid) == {b \in S.bots : b.bot_id = bid}
StatusOf(S, bid) == {b.status : b \in Row(S, bid)}

\* The route answered 200 with the row of bid as it is stored afterwards.
Returned(o, bid) ==
    /\ o.resp.status = 200
    /\ Len(o.resp.bots) = 1
    /\ Row(o.store, bid) = {o.resp.bots[1]}

\* C8. Status transitions: for the owner of an existing bot, whatever its
\* status, Start answers 200 and leaves 'running', Stop answers 200 and
\* leaves 'stopped'; a second Start (Stop) leaves the status of the first;
\* Start, Stop, Start leaves 'running'.
C8_StatusTransitions ==
    \A b \in bots : \A c \in Clients :
        AuthenticatedAs(c, b.user_id) =>
            LET bid == b.bot_id
            IN  /\ start_bot(Store, c, bid) # {}
                /\ stop_bot(Store, c, bid) # {}
                /\ \A o1 \in start_bot(Store, c, bid) :
                    /\ Returned(o1, bid)
                    /\ StatusOf(o1.store, bid) = {"running"}
                    /\ \A o2 \in start_bot(o1.store, c, bid) :
                        /\ Returned(o2, bid)
                        /\ StatusOf(o2.store, bid) = StatusOf(o1.store, bid)
                    /\ \A o2 \in stop_bot(o1.store, c, bid) :
                        /\ Returned(o2, bid)
                        /\ StatusOf(o2.store, bid) = {"stopped"}
                        /\ \A o3 \in start_bot(o2.store, c, bid) :
                            /\ Returned(o3, bid)
                            /\ StatusOf(o3.store, bid) = {"running"}
                /\ \A o1 \in stop_bot(Store, c, bid) :
                    /\ Returned(o1, bid)
                    /\ StatusOf(o1.store, bid) = {"stopped"}
                    /\ \A o2 \in stop_bot(o1.store, c, bid) :
                        /\ Returned(o2, bid)
                        /\ StatusOf(o2.store, bid) = StatusOf(o1.store, bid)

\* A bot its owner has started, the owner logged in: Stop leaves it stopped.
C8_Witness ==
    \E b \in bots : \E t \in 1 .. MaxTokens :
        /\ b.status = "running"
        /\ AuthenticatedAs(Cookie(t), b.user_id)
        /\ \E o \in stop_bot(Store, Cookie(t), b.bot_id) :
                StatusOf(o.store, b.bot_id) = {"stopped"}

\* The route succeeded on bot b and returned it with updated_at strictly
\* later than it was.
Later(b, outcomes) ==
    /\ outcomes # {}
    /\ \A o \in outcomes :
        /\ Returned(o, b.bot_id)
        /\ o.resp.bots[1].updated_at > b.updated_at

\* The route succeeded on bot b and returned it with updated_at the present
\* reading of the clock: not earlier than it was, and later when the clock
\* has advanced since.
Refreshed(b, outcomes) ==
    /\ outcomes # {}
    /\ \A o \in outcomes :
        /\ Returned(o, b.bot_id)
        /\ o.resp.bots[1].updated_at = now
        /\ o.resp.bots[1].updated_at >= b.updated_at
        /\ b.updated_at < now => o.resp.bots[1].updated_at > b.updated_at

\* C9, as the specification states it: every successful Update, Start or
\* Stop sets updated_at strictly later than it was.  It fails when the
\* clock reads what it read at the previous write of the row.
C9_StrictlyLater ==
    \A b \in bots : \A c \in Clients :
        AuthenticatedAs(c, b.user_id) =>
            /\ Later(b, start_bot(Store, c, b.bot_id))
            /\ Later(b, stop_bot(Store, c, b.bot_id))
            /\ \A body \in BotUpdateBodies : Later(b, update_bot(Store, c, b.bot_id, body))

\* C9, amended: every successful Update, Start or Stop sets updated_at to
\* the reading of the clock at that operation; with requests served one
\* after the other that is never earlier than the row's previous
\* updated_at, and strictly later when the clock has advanced since.
C9_UpdatedAtRefreshed ==
    \A b \in bots :
        /\ b.created_at <= b.updated_at /\ b.updated_at <= now
        /\ \A c \in Clients :
            AuthenticatedAs(c, b.user_id) =>
                /\ Refreshed(b, start_bot(Store, c, b.bot_id))
                /\ Refreshed(b, stop_bot(Store, c, b.bot_id))
                /\ \A body \in BotUpdateBodies :
                        Refreshed(b, update_bot(Store, c, b.bot_id, body))

\* A bot written after the clock advanced, at the present reading of the
\* clock, its owner logged in: the next write cannot be strictly later.
C9_Witness ==
    \E b \in bots : \E t \in 1 .. MaxTokens :
        /\ b.created_at < b.updated_at
        /\ b.updated_at = now
        /\ AuthenticatedAs(Cookie(t), b.user_id)
        /\ \E o \in start_bot(Store, Cookie(t), b.bot_id) :
                o.resp.status = 200 /\ o.resp.bots[1].updated_at = b.updated_at

\* C10. Partial update: Update by the owner answers 200 with the stored
\* row; name, status and settings each take the supplied value when it is
\* present and non-empty and keep the previous one otherwise (null, "",
\* {}); updated_at is the clock's reading, whatever is supplied; every
\* other column, every other bot, the users and the sessions are unchanged.
C10_PartialUpdate ==
    \A b \in bots : \A c \in Clients :
        AuthenticatedAs(c, b.user_id) =>
            \A body \in BotUpdateBodies :
                /\ update_bot(Store, c, b.bot_id, body) # {}
                /\ \A o \in update_bot(Store, c, b.bot_id, body) :
                    /\ Returned(o, b.bot_id)
                    /\ LET nb == o.resp.bots[1]
                       IN  /\ nb.name = IF body.name # None /\ body.name[1] # ""
                                        THEN body.name[1] ELSE b.name
                           /\ nb.status = IF body.status # None /\ body.status[1] # ""
                                          THEN body.status[1] ELSE b.status
                           /\ nb.settings = IF body.settings # None
                                                /\ body.settings[1] # EmptyMap
                                            THEN body.settings[1] ELSE b.settings
                           /\ nb.updated_at = now
                           /\ [nb EXCEPT !.name = b.name, !.status = b.status,
                                         !.settings = b.settings,
                                         !.updated_at = b.updated_at] = b
                           /\ o.store = [Store EXCEPT !.bots = (@ \ {b}) \cup {nb}]

\* A bot renamed and given settings by partial updates that left its status
\* as Create set it.
C10_Witness ==
    \E b \in bots :
        /\ b.name = "Bot2"
        /\ b.settings = [grid |-> "5"]
        /\ b.status = "stopped"
        /\ b.updated_at > b.created_at

\* Get, Update (with any body), Start, Stop and Delete of client c on bot id
\* bid, on store S, all answer 404 "Bot not found" and leave S as it is.
AllNotFound(S, c, bid) ==
    LET Missing(outcomes) ==
            /\ outcomes # {}
            /\ \A o \in outcomes :
                /\ o.resp = HTTPException(404, "Bot not found")
                /\ o.store = S
    IN  /\ Missing(get_bot(S, c, bid))
        /\ Missing(delete_bot(S, c, bid))
        /\ Missing(start_bot(S, c, bid))
        /\ Missing(stop_bot(S, c, bid))
        /\ \A body \in BotUpdateBodies : Missing(update_bot(S, c, bid, body))

\* The clients with a valid session.
LoggedIn == {c \in Clients : get_current_user(Store, c) # {}}

\* C11. Delete permanence: Delete by the owner of an existing bot answers
\* 200 and removes the row, and only that row; from then on, in every
\* state, no row carries that bot id, and Get, Update, Start, Stop and
\* Delete on it answer 404 to every logged-in user and leave the store
\* unchanged, so that nothing brings the row back.
C11_DeletePermanence ==
    /\ \A b \in bots : \A c \in LoggedIn :
            AuthenticatedAs(c, b.user_id) =>
                /\ delete_bot(Store, c, b.bot_id) # {}
                /\ \A o \in delete_bot(Store, c, b.bot_id) :
                    /\ o.resp.status = 200
                    /\ o.store = [Store EXCEPT !.bots = @ \ {b}]
                    /\ \A c2 \in LoggedIn : AllNotFound(o.store, c2, b.bot_id)
    /\ \A bid \in deleted :
            /\ \A b \in bots : b.bot_id # bid
            /\ \A c \in LoggedIn : AllNotFound(Store, c, bid)

\* A bot was deleted, and both its owner and another user are logged in:
\* Start on its id answers 404 to each.
C11_Witness ==
    \E bid \in deleted : \E c1, c2 \in LoggedIn :
        /\ get_current_user(Store, c1) # get_current_user(Store, c2)
        /\ \A c \in {c1, c2} : \A o \in start_bot(Store, c, bid) : o.resp.status = 404

\* The columns no Update, Start or Stop is to change.
Immutable(b) ==
    [bot_id |-> b.bot_id, user_id |-> b.user_id, strategy |-> b.strategy,
     trading_pair |-> b.trading_pair, exchange |-> b.exchange,
     initial_investment |-> b.initial_investment,
     current_value |-> b.current_value, is_virtual |-> b.is_virtual]

\* The route left every bot in place with its immutable columns.
KeepsBots(outcomes) ==
    \A o \in outcomes :
        {Immutable(b) : b \in o.store.bots} = {Immutable(b) : b \in bots}

\* The bodies Create is tried with: those the clients send and one with
\* every optional field given.
TriedCreateBodies ==
    BotCreateBodies
    \cup {[name |-> "Bot3", strategy |-> "dca", trading_pair |-> "ETH/USDT",
           exchange |-> "kraken", initial_investment |-> 250, is_virtual |-> FALSE,
           settings |-> [grid |-> "5"]]}

\* C12. Bot creation and immutable fields: Create stores one new row, owned
\* by the user of the request, with status 'stopped', current_value equal
\* to initial_investment and the other columns as sent; every stored bot
\* belongs to a stored user and has current_value equal to
\* initial_investment; and no Update, Start or Stop, of any logged-in
\* client on any bot id with any body, changes bot_id, user_id, strategy,
\* trading_pair, exchange, initial_investment, current_value or is_virtual
\* of any bot.
C12_ImmutableFields ==
    /\ \A b \in bots :
        /\ b.current_value = b.initial_investment
        /\ \E u \in users : u.user_id = b.user_id
    /\ \A c \in LoggedIn :
        /\ \A body \in TriedCreateBodies :
            /\ create_bot(Store, c, body) # {}
            /\ \A o \in create_bot(Store, c, body) :
                /\ o.resp.status = 200
                /\ LET nb == o.resp.bots[1]
                   IN  /\ AuthenticatedAs(c, nb.user_id)
                       /\ nb.status = "stopped"
                       /\ nb.current_value = body.initial_investment
                       /\ nb.initial_investment = body.initial_investment
                       /\ <<nb.name, nb.strategy, nb.trading_pair, nb.exchange,
                             nb.is_virtual, nb.settings>>
                            = <<body.name, body.strategy, body.trading_pair,
                                body.exchange, body.is_virtual, body.settings>>
                       /\ \A b \in bots : b.bot_id # nb.bot_id
                       /\ o.store.bots = bots \cup {nb}
        /\ \A bid \in BotIds :
            /\ KeepsBots(start_bot(Store, c, bid))
            /\ KeepsBots(stop_bot(Store, c, bid))
            /\ \A body \in BotUpdateBodies : KeepsBots(update_bot(Store, c, bid, body))

\* A bot of the user the exchange resolved, renamed and started after its
\* creation, its owner logged in.
C12_Witness ==
    \E b \in bots : \E c \in LoggedIn : \E u \in users :
        /\ AuthenticatedAs(c, b.user_id)
        /\ u.user_id = b.user_id /\ u.email # TestEmail
        /\ b.name = "Bot2" /\ b.status = "running"
        /\ b.current_value = b.initial_investment

\* The session rows that carry the token of credentials c.
Carrying(c) ==
    {s \in sessions : \E t \in TokenStrings :
        /\ t # 0
        /\ s.session_token = t
        /\ \/ c.cookie = Some(t)
           \/ c.cookie \in {None, Some(0)} /\ c.authorization = <<"Bearer", t>>}

\* C13. Logout never fails and is narrowly scoped: with any credentials
\* (no token, an empty one, one no session carries, one of a removed
\* session, a live or an expired one) Logout answers 200 and clears the
\* cookie; it removes exactly the session rows that carry the token, none
\* when there is no such row, and leaves every other session, the users
\* and the bots as they are.
C13_Logout ==
    \A c \in Credentials :
        /\ logout(Store, c) # {}
        /\ \A o \in logout(Store, c) :
            /\ o.resp.status = 200
            /\ o.resp.cookie = "delete"
            /\ o.store = [Store EXCEPT !.sessions = @ \ Carrying(c)]
            /\ Carrying(c) = {} => o.store = Store

\* Two users are logged in: the Logout of one, repeated with the token that
\* is then gone, leaves the session of the other.
C13_Witness ==
    \E s1, s2 \in sessions :
        /\ s1.user_id # s2.user_id
        /\ \A o1 \in logout(Store, Cookie(s1.session_token)) :
            /\ o1.store.sessions = {s2}
            /\ \A o2 \in logout(o1.store, Cookie(s1.session_token)) :
                    o2.resp.status = 200 /\ o2.store = o1.store

\* C14 (as the specification states it): when the exchange answers with a
\* status other than 200 or does not answer in time, CreateSession answers
\* 401 and leaves the users and the sessions as they are.  The code
\* catches no timeout of the exchange: the request ends with 500.
C14_UpstreamFailure ==
    \A sid \in ExternalSessionIds \ {"", TestSessionId} :
        \A ex \in ExchangeOutcomes :
            ex.status # 200 =>
                \A o \in create_session(Store, sid, ex) :
                    /\ o.resp.status = 401
                    /\ o.store = Store

\* The settings a user row may hold before onboarding: none, a key of its
\* own, and an earlier onboarding payload beside it.
PriorSettings ==
    {EmptyMap, [onboarding |-> "p0"], [theme |-> "dark"],
     [theme |-> "dark", onboarding |-> "p0"]}

\* Store S with prior as the settings of every user.
WithSettings(S, prior) ==
    [S EXCEPT !.users = {[u EXCEPT !.settings = prior] : u \in @}]

\* Every user row of the present store that has completed the onboarding is
\* still so after the request.
StaysOnboarded(outcomes) ==
    \A o \in outcomes : \A u \in users : \A v \in o.store.users :
        (v.user_id = u.user_id /\ u.onboarding_completed) => v.onboarding_completed

\* Every user row of the present store is there after the request, under
\* its user_id and email.
KeepsUsers(outcomes) ==
    \A o \in outcomes : \A u \in users : \E v \in o.store.users :
        v.user_id = u.user_id /\ v.email = u.email

\* C15. Onboarding merge: when a logged-in user calls CompleteOnboarding
\* with p1 and then with p2, both are answered 200 and the user's row has
\* onboarding_completed true and settings.onboarding = p2, every other key
\* its settings held before mapping to its previous value, and every other
\* user's row as it was; and no request to the authenticator turns
\* onboarding_completed of any user from true to false.
C15_OnboardingMerge ==
    /\ \A c \in LoggedIn : \A prior \in PriorSettings :
        \A p1, p2 \in OnboardingData :
            LET S0 == WithSettings(Store, prior)
            IN  \A o1 \in complete_onboarding(S0, c, p1) :
                /\ o1.resp.status = 200
                /\ complete_onboarding(o1.store, c, p2) # {}
                /\ \A o2 \in complete_onboarding(o1.store, c, p2) :
                    /\ o2.resp.status = 200
                    /\ \A u \in S0.users :
                        \E v \in o2.store.users :
                            /\ v.user_id = u.user_id
                            /\ IF AuthenticatedAs(c, u.user_id)
                               THEN /\ v.onboarding_completed
                                    /\ v.settings.onboarding = p2
                                    /\ DOMAIN v.settings
                                            = DOMAIN u.settings \cup {"onboarding"}
                                    /\ \A k \in DOMAIN u.settings \ {"onboarding"} :
                                            v.settings[k] = u.settings[k]
                                    /\ [v EXCEPT !.settings = u.settings,
                                                 !.onboarding_completed
                                                    = u.onboarding_completed] = u
                               ELSE v = u
                    /\ Cardinality(o2.store.users) = Cardinality(users)
    /\ \A sid \in ExternalSessionIds, ex \in ExchangeOutcomes :
            StaysOnboarded(create_session(Store, sid, ex))
    /\ \A c \in Clients :
        /\ StaysOnboarded(logout(Store, c))
        /\ StaysOnboarded(get_me(Store, c))
        /\ \A data \in OnboardingData : StaysOnboarded(complete_onboarding(Store, c, data))

\* A user who completed the onboarding with p2 and logged in again since.
C15_Witness ==
    \E u \in users : \E i1, i2 \in issued :
        /\ u.onboarding_completed
        /\ u.settings = [onboarding |-> "p2"]
        /\ i1.user_id = u.user_id /\ i2.user_id = u.user_id
        /\ i1.session_token < i2.session_token
        /\ AuthenticatedAs(Cookie(i2.session_token), u.user_id)

\* C16. User upsert: the users table holds one row per email, and a row for
\* every user a session was issued to; a login under the email of a stored
\* user keeps the row's user_id, onboarding_completed and settings and
\* writes name and picture as the exchange gave them, a login under a new
\* email adds one row; and no request removes a user row or changes its
\* user_id or email.
C16_UserUpsert ==
    /\ \A u1, u2 \in users : u1.email = u2.email => u1 = u2
    /\ \A i \in issued : \E u \in users : u.user_id = i.user_id
    /\ \A sid \in ExternalSessionIds, ex \in ExchangeOutcomes :
        Accepted(sid, ex) =>
            LET data == IF sid = TestSessionId THEN TestAuthData ELSE ex.data[1]
                known == {u \in users : u.email = data.email}
            IN  \A o \in create_session(Store, sid, ex) :
                /\ \A u \in users \ known : u \in o.store.users
                /\ \A u \in known :
                        [u EXCEPT !.name = data.name, !.picture = data.picture]
                            \in o.store.users
                /\ Cardinality(o.store.users)
                        = IF known = {} THEN Cardinality(users) + 1
                          ELSE Cardinality(users)
                /\ \E v \in o.store.users :
                    /\ v.email = data.email /\ v.name = data.name
                    /\ v.picture = data.picture
                    /\ v.user_id = o.resp.user[1].user_id
    /\ \A sid \in ExternalSessionIds, ex \in ExchangeOutcomes :
            KeepsUsers(create_session(Store, sid, ex))
    /\ \A c \in Clients :
        /\ KeepsUsers(logout(Store, c))
        /\ KeepsUsers(get_me(Store, c))
        /\ \A data \in OnboardingData : KeepsUsers(complete_onboarding(Store, c, data))

\* The user of the exchange, onboarded, logged in again under another name
\* and picture: the row kept its onboarding.
C16_Witness ==
    \E u \in users : \E i1, i2 \in issued :
        /\ u.email # TestEmail
        /\ u.name = "Ann B" /\ u.picture = Some("ann.png")
        /\ u.onboarding_completed /\ u.settings = [onboarding |-> "p1"]
        /\ i1.user_id = u.user_id /\ i2.user_id = u.user_id
        /\ i1.session_token < i2.session_token

\* Requests side by side.  The logins that have been answered 200, the
\* requests still in flight, and the users the sentinel id logs in.
LoginsDone == {p \in Procs : /\ reqs[p].kind = "session" /\ reqs[p].pc = "done"
                              /\ reqs[p].resp[1].status = 200}
InFlight == {p \in Procs : reqs[p].pc \notin {"idle", "done"}}
Resolving == {p \in LoginsDone :
                get_current_user(Store, Cookie(reqs[p].resp[1].token)) # {}}
SentinelUsers(S) == {u \in S.users : u.email = TestEmail}

\* C17. Single session per user under concurrency: when the user existed
\* before and two (or more) logins for the user have run side by side,
\* statement by statement, and both have committed and been answered, with
\* no logout sent meanwhile, then the sessions table holds at most one row
\* of the user and exactly one of the returned tokens resolves.
C17_SingleSessionConcurrent ==
    (/\ SentinelUsers(base) # {}
     /\ Cardinality(LoginsDone) >= 2
     /\ \A p \in Procs : reqs[p].kind # "logout"
     /\ \A p \in InFlight : reqs[p].kind # "session")
    => /\ \A u \in SentinelUsers(Store) :
            Cardinality({s \in sessions : s.user_id = u.user_id}) <= 1
       /\ Cardinality(Resolving) = 1

C17_Witness ==
    /\ SentinelUsers(base) # {}
    /\ Cardinality(LoginsDone) = 2
    /\ InFlight = {}
    /\ Cardinality(Resolving) = 1
    /\ Cardinality(sessions) = 1

\* The requests that have been taken, and the orders they can be put in.
Taken == {p \in Procs : reqs[p].pc # "idle"}
Orders(ps) ==
    {f \in [1 .. Cardinality(ps) -> ps] :
        \A i, j \in 1 .. Cardinality(ps) : f[i] = f[j] => i = j}

\* What the route of request r answers and leaves when it is served alone.
Alone(S, r) ==
    IF r.kind = "update" THEN update_bot(S, r.cred, r.bid, r.body)
    ELSE IF r.kind = "start" THEN start_bot(S, r.cred, r.bid)
    ELSE IF r.kind = "stop" THEN stop_bot(S, r.cred, r.bid)
    ELSE delete_bot(S, r.cred, r.bid)

\* Served one after the other from store S, the requests of order from the
\* i-th on answer what they answered side by side and leave the bots table
\* as it is now.
RECURSIVE SerialFrom(_, _, _)
SerialFrom(S, order, i) ==
    IF i > Len(order) THEN S.bots = bots
    ELSE \E o \in Alone(S, reqs[order[i]]) :
            /\ o.resp = reqs[order[i]].resp[1]
            /\ SerialFrom(o.store, order, i + 1)

\* C18. Concurrent bot mutations are serializable: when Start, Stop, Update
\* and Delete requests of the owner on one bot have run side by side and
\* all have been answered with the row or with NotFound, there is a serial
\* order of them that leaves the bots table as it is now and gives every
\* request the response it got.
C18_Serializable ==
    (/\ Taken # {}
     /\ InFlight = {}
     /\ \A p \in Taken : /\ reqs[p].kind \in MutationKinds
                          /\ reqs[p].resp[1].status \in {200, 404})
    => \E order \in Orders(Taken) : SerialFrom(base, order, 1)

C18_Witness ==
    /\ InFlight = {}
    /\ Cardinality(Taken) >= 2
    /\ \E p, q \in Taken :
        /\ reqs[p].kind = "delete" /\ reqs[p].resp[1].status = 200
        /\ reqs[q].kind \in {"update", "start", "stop"}
        /\ reqs[q].resp[1].status = 404
        /\ reqs[q].bid = reqs[p].bid
    /\ bots = {}

\* The logins that have ended without a session: refused with 400, rejected
\* by the exchange, or failed at a statement or at the commit.
LoginsFailed == {p \in Procs : /\ reqs[p].kind = "session" /\ reqs[p].pc = "done"
                                /\ reqs[p].resp[1].status # 200}

\* C19. CreateSession is all-or-nothing: when the logins taken since the
\* store was base have all ended without their commit, the users table is
\* as before, every session of before still exists and still resolves, and
\* no new session exists.
C19_AllOrNothing ==
    (Taken # {} /\ Taken = LoginsFailed)
    => /\ users = base.users
       /\ sessions = base.sessions
       /\ \A s \in base.sessions :
            get_current_user(Store, Cookie(s.session_token))
                = {u \in base.users : u.user_id = s.user_id}

\* A login of the user failed after it had deleted the user's session.
C19_Witness ==
    /\ Taken = LoginsFailed
    /\ \E p \in Taken : reqs[p].resp[1].status = 500
    /\ \E p \in Taken : reqs[p].resp[1].status \in {400, 401}
    /\ uuid.sess > base.uuid.sess
    /\ \E s \in sessions : get_current_user(Store, Cookie(s.session_token)) # {}

\* C20. Connection release: a request holds at most one connection at a
\* time, and none when it has ended, whatever its exit path (success, 401,
\* 404 or a failing statement); when no request is in flight no connection
\* is open.
C20_ConnectionRelease ==
    /\ \A p \in Procs :
        /\ reqs[p].conn \in {0, 1}
        /\ reqs[p].pc \in {"idle", "done"} => reqs[p].conn = 0
    /\ InFlight = {} => \A p \in Procs : reqs[p].conn = 0

\* A write on a bot was refused with 401 by get_current_user after a login
\* had replaced the session, and both requests have ended.
C20_Witness ==
    /\ InFlight = {}
    /\ \E p \in Taken : /\ reqs[p].kind \in MutationKinds
                          /\ reqs[p].resp[1].status = 401
    /\ \E p \in Taken : reqs[p].resp[1].status = 200
    /\ \A p \in Procs : reqs[p].conn = 0

\* What a request can present: any cookie, and any Authorization header,
\* given as the fields between its spaces (the header is the fields joined
\* by one space each; the field 0 is the empty string, so <<"Bearer", 0, t>>
\* is "Bearer  t" and <<"Bearer", 0>> is "Bearer ").
Schemes == {"Bearer", "Basic"}
Headers ==
    {None} \cup {<<m>> : m \in Schemes}
           \cup {<<m, t>> : m \in Schemes, t \in TokenStrings}
           \cup {<<m, t, x>> : m \in Schemes, t \in TokenStrings, x \in TokenStrings}
Presented ==
    [cookie : {None} \cup {Some(t) : t \in TokenStrings}, authorization : Headers]

\* The header begins with "Bearer "; the fields of the text that follows.
StartsWithBearer(h) == Len(h) >= 2 /\ h[1] = "Bearer"
Following(h) == SubSeq(h, 2, Len(h))

\* The request is answered 401 by every protected operation.
NoToken(c) ==
    /\ ~TruthyTok(get_session_token(c))
    /\ \E o \in Unauthenticated(Store, c) : o.resp.status = 401

\* A non-empty cookie is the token, and the request is resolved as if it
\* carried the cookie alone.
CookieFirst(c) ==
    TruthyTok(c.cookie)
    => /\ get_session_token(c) = c.cookie
       /\ get_current_user(Store, c) = get_current_user(Store, Cookie(c.cookie[1]))
       /\ Unauthenticated(Store, c) = Unauthenticated(Store, Cookie(c.cookie[1]))

\* C21 as stated.  Token extraction order: the token is the cookie when it
\* is present and non-empty; otherwise it is the whole text that follows
\* "Bearer " in the Authorization header (a text with a space in it is the
\* token of no session, so the request is not authenticated); when neither
\* yields a non-empty token the request carries no token and is answered
\* 401.
C21_TextAfterBearer ==
    \A c \in Presented :
        LET h == c.authorization
        IN  /\ CookieFirst(c)
            /\ (~TruthyTok(c.cookie) /\ StartsWithBearer(h) /\ Following(h) # <<0>>)
               => IF Len(Following(h)) = 1
                  THEN get_session_token(c) = Some(h[2])
                  ELSE get_current_user(Store, c) = {}
            /\ (~TruthyTok(c.cookie) /\ ~(StartsWithBearer(h) /\ Following(h) # <<0>>))
               => NoToken(c)

\* C21. Token extraction order: the token is the cookie when it is present
\* and non-empty, and the header is then not consulted; otherwise it is the
\* text between "Bearer " and the next space of the Authorization header
\* (what follows that space is ignored); when neither yields a non-empty
\* token the request carries no token and is answered 401.
C21_TokenExtraction ==
    \A c \in Presented :
        LET h == c.authorization
        IN  /\ CookieFirst(c)
            /\ (~TruthyTok(c.cookie) /\ StartsWithBearer(h) /\ h[2] # 0)
               => get_session_token(c) = Some(h[2])
            /\ (~TruthyTok(c.cookie) /\ ~(StartsWithBearer(h) /\ h[2] # 0))
               => NoToken(c)

\* A session is stored: a forged cookie hides the header that carries its
\* token, an empty cookie does not, and a word after the token is ignored.
C21_Witness ==
    \E s \in sessions :
        /\ get_current_user(Store, [cookie |-> Some(ForgedToken),
                                    authorization |-> <<"Bearer", s.session_token>>]) = {}
        /\ get_current_user(Store, [cookie |-> Some(0),
                                    authorization |-> <<"Bearer", s.session_token>>]) # {}
        /\ get_current_user(Store, [cookie |-> None,
                                    authorization |-> <<"Bearer", s.session_token,
                                                        ForgedToken>>]) # {}

\* C22. No action on a revoked session: in every interleaving, the UPDATE
\* or DELETE of a bot route executes at a moment when the token its request
\* presented still identifies a stored session that has not expired.
C22_NoActionOnRevoked ==
    [][\A p \in Procs :
        Statement(p) => get_current_user(Store, reqs[p].cred) # {}]_vars

\* C23. Concurrent first login: when no user has the email yet and two (or
\* more) logins under it have run side by side, statement by statement, and
\* have been answered 200, exactly one user row has the email and the
\* responses carry the same user_id.
C23_ConcurrentFirstLogin ==
    (/\ SentinelUsers(base) = {}
     /\ Cardinality(LoginsDone) >= 2
     /\ \A p \in InFlight : reqs[p].kind # "session")
    => /\ Cardinality(SentinelUsers(Store)) = 1
       /\ \A p, q \in LoginsDone :
            reqs[p].resp[1].user[1].user_id = reqs[q].resp[1].user[1].user_id

====
